---- MODULE Spec2Model ----
(***************************************************************************)
(* Model of srt-ai: the token-bounded grouper (src/functions.js and        *)
(* src/index.js), the translate / getTranslation retry controller and the  *)
(* batch job manager (src/functions.js).                                   *)
(***************************************************************************)
EXTENDS Integers, Sequences, FiniteSets, TLC

(***************************************************************************)
(* Bounds of the model.                                                    *)
(***************************************************************************)
\* longest input sequence handed to the grouper
MaxSegments == 4
\* largest token cost of one segment's content
MaxSegmentTokens == 3
\* largest token budget (MAX_TOKENS) tried
MaxLength == 4
\* longest group handed to translate
MaxGroupLen == 2
\* most lines in one raw response text
MaxLines == 3
\* largest configured MAX_TRIES
MaxMaxTries == 5
\* most batch jobs created at the remote side
MaxJobs == 2
\* most requests pushed to toBatch over a run of the model
MaxRequests == 2

(***************************************************************************)
(* Program constants.                                                      *)
(***************************************************************************)
\* functions.js: tokens added per appended segment for the "\nN. " marker
DelimiterFunctions == 4
\* index.js: tokens added per appended segment for the "|" separator
DelimiterIndex == 1
\* functions.js: exchanges of attempts above this number go to most-errored
MostErroredThreshold == 3

VARIABLES
    \* ---- grouper (groupSegmentsByTokenLength) ----
    segments,      \* the ordered input sequence of {header, content}
    length,        \* the budget argument (MAX_TOKENS)
    delimiter,     \* 4 (functions.js) or 1 (index.js)
    groups,        \* the returned groups
    grouped,       \* TRUE once groupSegmentsByTokenLength has returned
    \* ---- translate(group, number) ----
    MAX_TRIES,     \* the configured maximum attempt count
    group,         \* the group being translated (segments mutated in place)
    groupIn,       \* the group as it was handed to translate(group, 0)
    number,        \* the attempt argument of the running invocation
    calls,         \* getTranslation calls made since translate(group, 0)
    result,        \* "running", or how translate(group, 0) settled
    translated,    \* what the last getTranslation call returned
    allMismatched, \* every text obtained so far had the wrong fragment count
    mostErrored,   \* the error corpus (most-errored.jsonl)
    reported,      \* observed/expected counts emitted by console.error
    \* ---- batch mode (batch = true) ----
    toBatch,       \* the in-memory pending list
    jobs,          \* the in-memory job list
    cache,         \* the content of cache.json (JSON.stringify(jobs))
    remote,        \* the batches held by the remote side, by batch id
    nextId,        \* the next custom_id handed out
    \* ---- translatePath(path) ----
    batch,          \* the --batch flag
    ffmpegResult,   \* what looking for the file's subtitles yields
    executionCache, \* executionCache[path]
    written,        \* the translated subtitle file of the path
    pathResult,     \* what the last translatePath call returned
    \* ---- the windows of translatePath (lines 387-394) ----
    running,        \* a translatePath call has not returned yet
    started,        \* the translatePath calls made so far
    groupCount,     \* groups.length of the call
    windowStart,    \* i, the start of the next window
    inWindow,       \* unsettled translate promises of the awaited window
    leftBehind,     \* unsettled translate promises of calls that returned
    \* ---- a second run of the program on the same cache.json ----
    peer,           \* its in-memory toBatch and jobs
    \* ---- the synchronous script src/index.js ----
    index           \* the state of its translatePath call on one file

groupVars == <<segments, length, delimiter, groups, grouped>>

translateVars == <<MAX_TRIES, group, groupIn, number, calls, result,
                   translated, allMismatched, mostErrored, reported>>

batchVars == <<toBatch, jobs, cache, remote, nextId>>

pathVars == <<batch, ffmpegResult, executionCache, written, pathResult>>

windowVars ==
    <<running, started, groupCount, windowStart, inWindow, leftBehind>>

vars ==
    <<groupVars, translateVars, batchVars, pathVars, windowVars, peer, index>>

(***************************************************************************)
(* Helpers on sequences.                                                   *)
(***************************************************************************)
RECURSIVE Flatten(_)
Flatten(ss) == IF ss = <<>> THEN <<>> ELSE Head(ss) \o Flatten(Tail(ss))

RECURSIVE SumSeq(_)
SumSeq(s) == IF s = <<>> THEN 0 ELSE Head(s) + SumSeq(Tail(s))

SeqsUpTo(S, n) == UNION {[1..k -> S] : k \in 0..n}

(***************************************************************************)
(* Token Estimator.  A content is a sequence of words; the encoder yields  *)
(* one token per word, so numTokens is the number of words.                *)
(***************************************************************************)
Words == {"w"}

Contents == SeqsUpTo(Words, MaxSegmentTokens)

numTokens(text) == Len(text)

(***************************************************************************)
(* groupSegmentsByTokenLength.  The accumulator holds the three locals of  *)
(* the function: groups, currentGroup, currentGroupTokenCount.             *)
(***************************************************************************)
GroupStepDropOnOverflow(acc, segment, len, delim) ==
    LET segmentTokenCount == numTokens(segment.content) IN
    IF acc.currentGroupTokenCount + segmentTokenCount <= len
    THEN [groups |-> acc.groups,
          currentGroup |-> Append(acc.currentGroup, segment),
          currentGroupTokenCount |->
              acc.currentGroupTokenCount + segmentTokenCount + delim]
    ELSE [groups |-> Append(acc.groups, acc.currentGroup),
          currentGroup |-> <<>>,
          currentGroupTokenCount |-> segmentTokenCount]

\* one iteration of the for loop
GroupStep(acc, segment, len, delim) ==
    LET segmentTokenCount == numTokens(segment.content) IN
    IF acc.currentGroupTokenCount + segmentTokenCount <= len
    THEN [groups |-> acc.groups,
          currentGroup |-> Append(acc.currentGroup, segment),
          currentGroupTokenCount |->
              acc.currentGroupTokenCount + segmentTokenCount + delim]
    ELSE [groups |-> Append(acc.groups, acc.currentGroup),
          currentGroup |-> <<segment>>,
          currentGroupTokenCount |-> segmentTokenCount]

RECURSIVE GroupLoop(_, _, _, _)
GroupLoop(acc, segs, len, delim) ==
    IF segs = <<>> THEN acc
    ELSE GroupLoop(GroupStep(acc, Head(segs), len, delim), Tail(segs), len, delim)

groupSegmentsByTokenLength(segs, len, delim) ==
    LET acc == GroupLoop([groups |-> <<>>, currentGroup |-> <<>>,
                          currentGroupTokenCount |-> 0], segs, len, delim)
    IN  IF Len(acc.currentGroup) > 0
        THEN Append(acc.groups, acc.currentGroup)
        ELSE acc.groups

(***************************************************************************)
(* Specification of the grouper: the inputs are drawn in the initial       *)
(* state, one action applies the function.                                 *)
(***************************************************************************)
\* segment i of the input carries header i, so that segments are told apart
SegmentInputs ==
    {[i \in 1..Len(cs) |-> [header |-> i, content |-> cs[i]]] :
        cs \in SeqsUpTo(Contents, MaxSegments)}

GroupInputs ==
    /\ segments \in SegmentInputs
    /\ length \in 1..MaxLength
    /\ delimiter \in {DelimiterFunctions, DelimiterIndex}
    /\ groups = <<>>
    /\ grouped = FALSE

RunGroup ==
    /\ ~grouped
    /\ groups' = groupSegmentsByTokenLength(segments, length, delimiter)
    /\ grouped' = TRUE
    /\ UNCHANGED <<segments, length, delimiter>>
    /\ UNCHANGED <<translateVars, batchVars, pathVars, windowVars, peer, index>>

GroupNext == RunGroup

(***************************************************************************)
(* Raw text.  A JavaScript string is modelled by what split('\n') makes of *)
(* it: a non-empty sequence of newline-free lines, each a sequence of      *)
(* characters.  The empty string is the text of one empty line.            *)
(***************************************************************************)
Digits == {"1", "2"}

Spaces == {" "}

Lines ==
    { <<>>,
      <<"a">>,
      <<"1", ".", " ", "b">>,
      <<" ", "2", ".", " ", " ", "c", " ">> }

Texts == UNION {[1..k -> Lines] : k \in 1..MaxLines}

EmptyText == << <<>> >>

\* a segment whose translatedContent property has not been assigned
Absent == <<"undefined">>

\* String.prototype.trim
RECURSIVE trimStart(_)
trimStart(s) ==
    IF s # <<>> /\ Head(s) \in Spaces THEN trimStart(Tail(s)) ELSE s

RECURSIVE trimEnd(_)
trimEnd(s) ==
    IF s # <<>> /\ s[Len(s)] \in Spaces
    THEN trimEnd(SubSeq(s, 1, Len(s) - 1)) ELSE s

trim(s) == trimEnd(trimStart(s))

\* the number of leading digits of s
RECURSIVE leadingDigits(_)
leadingDigits(s) ==
    IF s # <<>> /\ Head(s) \in Digits THEN 1 + leadingDigits(Tail(s)) ELSE 0

\* s.replace(/^(\d+)\. /, '')
stripOrdinal(s) ==
    LET d == leadingDigits(s) IN
    IF d >= 1 /\ Len(s) >= d + 2 /\ s[d + 1] = "." /\ s[d + 2] = " "
    THEN SubSeq(s, d + 3, Len(s))
    ELSE s

\* lines 168-171: split, trim, strip the ordinal marker, drop one trailing ''
parseTranslated(text) ==
    LET split == [i \in 1..Len(text) |-> stripOrdinal(trim(text[i]))] IN
    IF split[Len(split)] = <<>>
    THEN SubSeq(split, 1, Len(split) - 1)
    ELSE split

\* line 144: the i-th line of the request text is "i. content"
renderGroup(g) == [i \in 1..Len(g) |-> <<i, g[i].content>>]

(***************************************************************************)
(* getTranslation returns a string or false.  The model keeps both in one  *)
(* record: ok = FALSE is the value false.                                  *)
(***************************************************************************)
ReturnedFalse == [ok |-> FALSE, text |-> EmptyText]

ReturnedText(t) == [ok |-> TRUE, text |-> t]

\* JavaScript truthiness of what getTranslation returned: false and '' are falsy
truthy(tr) == tr.ok /\ tr.text # EmptyText

\* lines 122-130: the synchronous branch of getTranslation
getTranslationSync(finish_reason, content) ==
    IF finish_reason # "stop" THEN ReturnedFalse ELSE ReturnedText(content)

\* lines 195-197
assignTranslated(g, split) ==
    [i \in 1..Len(g) |-> [g[i] EXCEPT !.translatedContent = split[i]]]

\* lines 153-165
logMostErrored(errored, g, num, tr) ==
    IF num > MostErroredThreshold
    THEN Append(errored, [input |-> renderGroup(g), output |-> tr.text])
    ELSE errored

\* which way one invocation translate(group, number) goes once getTranslation
\* has returned tr (lines 148-199)
translateBranch(g, num, tr, maxTries) ==
    IF ~truthy(tr) THEN "queued"
    ELSE IF Len(parseTranslated(tr.text)) # Len(g)
         THEN IF num >= maxTries THEN "exhausted" ELSE "retry"
         ELSE "success"

(***************************************************************************)
(* translate in synchronous mode (batch = false).  One action is one       *)
(* invocation translate(group, number): the recursive call of line 192 is  *)
(* the next invocation.                                                    *)
(***************************************************************************)
TranslateGroupContents == {<<"w">>, <<"w", "w">>}

TranslateGroups ==
    {[i \in 1..Len(cs) |->
         [header |-> i, content |-> cs[i], translatedContent |-> Absent]] :
        cs \in SeqsUpTo(TranslateGroupContents, MaxGroupLen)}

TranslateInputs ==
    /\ MAX_TRIES \in 1..MaxMaxTries
    /\ group \in TranslateGroups
    /\ groupIn = group
    /\ number = 0
    /\ calls = 0
    /\ result = "running"
    /\ translated = ReturnedFalse
    /\ allMismatched = TRUE
    /\ mostErrored = <<>>
    /\ reported = <<>>

\* the effect of lines 148-199 once getTranslation has returned tr
TranslateContinue(tr) ==
    LET branch == translateBranch(group, number, tr, MAX_TRIES)
        split == parseTranslated(tr.text)
    IN
    /\ calls' = calls + 1
    /\ translated' = tr
    /\ allMismatched' =
           (allMismatched /\ tr.ok /\ Len(split) # Len(group))
    /\ mostErrored' =
           IF branch = "queued" THEN mostErrored
           ELSE logMostErrored(mostErrored, group, number, tr)
    /\ reported' =
           IF branch = "exhausted"
           THEN Append(reported, <<Len(split), Len(group)>>)
           ELSE reported
    /\ group' =
           IF branch = "success" THEN assignTranslated(group, split) ELSE group
    /\ number' = IF branch = "retry" THEN number + 1 ELSE number
    /\ result' =
           CASE branch = "queued" -> "false"
             [] branch = "exhausted" -> "false"
             [] branch = "retry" -> "running"
             [] branch = "success" -> "true"
    /\ UNCHANGED <<MAX_TRIES, groupIn>>
    /\ UNCHANGED <<groupVars, batchVars, pathVars, windowVars, peer, index>>

\* the completion finished with 'stop' and carries the text t
TranslateStop ==
    /\ result = "running"
    /\ \E t \in Texts : TranslateContinue(getTranslationSync("stop", t))

\* the completion finished for another reason (truncated, filtered)
TranslateNotStop ==
    /\ result = "running"
    /\ TranslateContinue(getTranslationSync("length", EmptyText))

\* openai.chat.completions.create rejected: translate rejects with the error
TranslateThrow ==
    /\ result = "running"
    /\ calls' = calls + 1
    /\ result' = "rejected"
    /\ allMismatched' = FALSE
    /\ UNCHANGED <<MAX_TRIES, group, groupIn, number, translated,
                   mostErrored, reported>>
    /\ UNCHANGED <<groupVars, batchVars, pathVars, windowVars, peer, index>>

SyncNext == TranslateStop \/ TranslateNotStop \/ TranslateThrow

(***************************************************************************)
(* Batch mode.  A request text is the rendered group; a result is what     *)
(* getTranslation would return for it: NoResult is an absent result.       *)
(***************************************************************************)
NoResult == ReturnedFalse

\* the texts the remote side may produce for a request
ResultTexts == { << <<"a">> >>, << <<"a">>, <<"a">> >> }

\* the groups translated in batch mode: of no, one and two segments
BatchSegment(h) ==
    [header |-> h, content |-> <<"w">>, translatedContent |-> Absent]

BatchGroups ==
    { <<>>,
      <<BatchSegment(1)>>,
      <<BatchSegment(1), BatchSegment(2)>> }

hasContent(job, text) ==
    \E i \in 1..Len(job.requests) : job.requests[i].content = text

\* jobs.find(j => j.requests.find(r => r.content === text)): its index, or 0
findJob(js, text) ==
    IF \E k \in 1..Len(js) : hasContent(js[k], text)
    THEN CHOOSE k \in 1..Len(js) :
             /\ hasContent(js[k], text)
             /\ \A m \in 1..(k - 1) : ~hasContent(js[m], text)
    ELSE 0

\* job.requests.find(r => r.content === text)
findRequest(job, text) ==
    job.requests[CHOOSE i \in 1..Len(job.requests) :
                     /\ job.requests[i].content = text
                     /\ \A m \in 1..(i - 1) : job.requests[m].content # text]

\* lines 109-121: the batch branch of getTranslation
getTranslationBatch(js, pending, id, text) ==
    LET k == findJob(js, text) IN
    IF k # 0
    THEN [translated |-> IF js[k].finished
                         THEN findRequest(js[k], text).result
                         ELSE ReturnedFalse,
          toBatch |-> pending,
          nextId |-> id]
    ELSE [translated |-> ReturnedFalse,
          toBatch |-> Append(pending, [custom_id |-> id, content |-> text]),
          nextId |-> id + 1]

\* JSON.stringify(jobs): a property that is undefined is left out
stringifyRequest(r) ==
    IF r.result.ok
    THEN [content |-> r.content, id |-> r.id, result |-> r.result.text]
    ELSE [content |-> r.content, id |-> r.id]

stringifyJob(j) ==
    LET requests == [i \in 1..Len(j.requests) |-> stringifyRequest(j.requests[i])]
    IN  IF j.finished
        THEN [id |-> j.id, requests |-> requests, finished |-> TRUE]
        ELSE [id |-> j.id, requests |-> requests]

JSONstringify(js) == [k \in 1..Len(js) |-> stringifyJob(js[k])]

\* JSON.parse of cache.json (lines 25-27): a missing property reads undefined
parseRequest(r) ==
    [content |-> r.content, id |-> r.id,
     result |-> IF "result" \in DOMAIN r THEN ReturnedText(r.result) ELSE NoResult]

parseJob(j) ==
    [id |-> j.id,
     finished |-> "finished" \in DOMAIN j,
     requests |-> [i \in 1..Len(j.requests) |-> parseRequest(j.requests[i])]]

JSONparse(file) == [k \in 1..Len(file) |-> parseJob(file[k])]

\* lines 180-182: drop the requests of this text from the first job holding one
removeRequest(js, text) ==
    LET k == findJob(js, text)
        left == SelectSeq(js[k].requests, LAMBDA r : r.content # text)
    IN  IF Len(left) = 0
        THEN SelectSeq(js, LAMBDA j : j.id # js[k].id)
        ELSE [js EXCEPT ![k].requests = left]

\* translate(group, number) in batch mode, the recursion of line 192 included.
\* st holds what the invocation reads and writes.
RECURSIVE translateBatch(_, _, _)
translateBatch(g, num, st) ==
    LET text == renderGroup(g)
        got == getTranslationBatch(st.jobs, st.toBatch, st.nextId, text)
        tr == got.translated
        branch == translateBranch(g, num, tr, st.MAX_TRIES)
        split == parseTranslated(tr.text)
        st1 == [st EXCEPT !.toBatch = got.toBatch,
                          !.nextId = got.nextId,
                          !.calls = @ + 1,
                          !.number = num,
                          !.translated = tr]
        st2 == [st1 EXCEPT !.mostErrored = logMostErrored(@, g, num, tr)]
        st3 == [st2 EXCEPT !.jobs = removeRequest(st2.jobs, text),
                           !.cache = JSONstringify(removeRequest(st2.jobs, text))]
    IN  CASE branch = "queued" -> [st1 EXCEPT !.result = "false"]
          [] branch = "success" ->
                 [st2 EXCEPT !.group = assignTranslated(g, split),
                             !.result = "true"]
          [] branch = "exhausted" ->
                 [st3 EXCEPT !.reported = Append(@, <<Len(split), Len(g)>>),
                             !.result = "false"]
          [] branch = "retry" -> translateBatch(g, num + 1, st3)

\* translate(group, 0) with batch = true, called by translatePath
TranslateBatch ==
    \E g \in BatchGroups :
        LET st == translateBatch(g, 0,
                      [jobs |-> jobs, toBatch |-> toBatch, cache |-> cache,
                       nextId |-> nextId, mostErrored |-> mostErrored,
                       reported |-> <<>>, calls |-> 0, number |-> 0,
                       translated |-> ReturnedFalse, group |-> g,
                       result |-> "running", MAX_TRIES |-> MAX_TRIES])
        IN  /\ st.nextId <= MaxRequests + 1
            /\ toBatch' = st.toBatch
            /\ jobs' = st.jobs
            /\ cache' = st.cache
            /\ nextId' = st.nextId
            /\ mostErrored' = st.mostErrored
            /\ group' = st.group
            /\ groupIn' = g
            /\ result' = st.result
            /\ UNCHANGED <<MAX_TRIES, number, calls, translated,
                           allMismatched, reported, remote>>
            /\ UNCHANGED <<groupVars, pathVars, windowVars, peer, index>>

newJobReversed(id, pending) ==
    [id |-> id,
     finished |-> FALSE,
     requests |-> [i \in 1..Len(pending) |->
                      [content |-> pending[Len(pending) + 1 - i].content,
                       id |-> id, result |-> NoResult]]]

\* lines 427-433: the job pushed for the batch the remote side created
newJob(id, pending) ==
    [id |-> id,
     finished |-> FALSE,
     requests |-> [i \in 1..Len(pending) |->
                      [content |-> pending[i].content, id |-> id,
                       result |-> NoResult]]]

\* lines 413-440: batchTranslations
BatchTranslations ==
    /\ IF Len(toBatch) > 0
       THEN LET id == Len(remote) + 1 IN
            /\ id <= MaxJobs
            /\ remote' = Append(remote, [status |-> "in_progress",
                                         input |-> toBatch,
                                         output |-> <<>>])
            /\ jobs' = Append(jobs, newJob(id, toBatch))
            /\ cache' = JSONstringify(jobs')
       ELSE UNCHANGED <<remote, jobs, cache>>
    /\ toBatch' = <<>>
    /\ UNCHANGED <<nextId, translateVars, groupVars, pathVars, windowVars, peer, index>>

\* openai.files.create or openai.batches.create rejected (lines 418-426)
BatchTranslationsThrow ==
    /\ Len(toBatch) > 0
    /\ UNCHANGED <<toBatch, jobs, cache, remote, nextId>>
    /\ UNCHANGED <<translateVars, groupVars, pathVars, windowVars, peer, index>>

(***************************************************************************)
(* The remote side.  A batch in progress ends completed with an output     *)
(* file, completed with only an error file, failed or expired.  The output *)
(* file holds one line per request that succeeded, keyed by custom_id, in  *)
(* an order of the remote side's choosing.  An error file whose last line  *)
(* is empty makes JSON.parse of line 459 throw.                            *)
(***************************************************************************)
OutputLines(input) ==
    {[custom_id |-> input[k].custom_id, text |-> t] :
        k \in 1..Len(input), t \in ResultTexts}

OutputFiles(input) ==
    {out \in SeqsUpTo(OutputLines(input), Len(input)) :
        /\ Len(out) >= 1
        /\ \A a, b \in 1..Len(out) :
               a # b => out[a].custom_id # out[b].custom_id}

RemoteCompletes ==
    /\ \E id \in 1..Len(remote) :
           /\ remote[id].status = "in_progress"
           /\ \E out \in OutputFiles(remote[id].input) :
                  remote' = [remote EXCEPT ![id].status = "completed",
                                           ![id].output = out]
    /\ UNCHANGED <<toBatch, jobs, cache, nextId, translateVars, groupVars, pathVars, windowVars, peer, index>>

RemoteEndsWithoutOutput ==
    /\ \E id \in 1..Len(remote) :
           /\ remote[id].status = "in_progress"
           /\ \E s \in {"completed_errors", "completed_errors_unparsable",
                        "failed", "expired"} :
                  remote' = [remote EXCEPT ![id].status = s]
    /\ UNCHANGED <<toBatch, jobs, cache, nextId, translateVars, groupVars, pathVars, windowVars, peer, index>>

\* lines 467-470: results copied into the requests by position
copyResults(job, output) ==
    [job EXCEPT
        !.requests = [i \in 1..Len(job.requests) |->
                         IF i <= Len(output)
                         THEN [job.requests[i] EXCEPT
                                  !.result = ReturnedText(output[i].text)]
                         ELSE job.requests[i]],
        !.finished = TRUE]

replaceJob(js, job) ==
    [k \in 1..Len(js) |-> IF js[k].id = job.id THEN job ELSE js[k]]

pollJobKeepsFailed(acc, job) ==
    LET retrieved == remote[job.id]
        asked == [acc EXCEPT !.queried = @ \cup {job.id}]
    IN
    IF acc.threw \/ job.finished THEN acc
    ELSE CASE retrieved.status = "completed" ->
                  [asked EXCEPT !.jobs = replaceJob(@, copyResults(job, retrieved.output))]
           [] retrieved.status = "completed_errors" ->
                  [asked EXCEPT !.jobs = SelectSeq(@, LAMBDA j : j.id # job.id)]
           [] retrieved.status = "completed_errors_unparsable" ->
                  [asked EXCEPT !.threw = TRUE]
           [] OTHER -> asked

pollJobAsksFinished(acc, job) ==
    LET retrieved == remote[job.id]
        asked == [acc EXCEPT !.queried = @ \cup {job.id}]
    IN
    IF acc.threw THEN acc
    ELSE CASE retrieved.status = "completed" ->
                  [asked EXCEPT !.jobs = replaceJob(@, copyResults(job, retrieved.output))]
           [] retrieved.status = "completed_errors" ->
                  [asked EXCEPT !.jobs = SelectSeq(@, LAMBDA j : j.id # job.id)]
           [] retrieved.status = "completed_errors_unparsable" ->
                  [asked EXCEPT !.threw = TRUE]
           [] retrieved.status = "failed" ->
                  [asked EXCEPT !.jobs = SelectSeq(@, LAMBDA j : j.id # job.id)]
           [] OTHER -> asked

\* lines 453-477: one iteration of the loop over [...jobs]; queried are the
\* jobs openai.batches.retrieve has been called for (line 454)
pollJob(acc, job) ==
    LET retrieved == remote[job.id]
        asked == [acc EXCEPT !.queried = @ \cup {job.id}]
    IN
    IF acc.threw \/ job.finished THEN acc
    ELSE CASE retrieved.status = "completed" ->
                  [asked EXCEPT !.jobs = replaceJob(@, copyResults(job, retrieved.output))]
           [] retrieved.status = "completed_errors" ->
                  [asked EXCEPT !.jobs = SelectSeq(@, LAMBDA j : j.id # job.id)]
           [] retrieved.status = "completed_errors_unparsable" ->
                  [asked EXCEPT !.threw = TRUE]
           [] retrieved.status = "failed" ->
                  [asked EXCEPT !.jobs = SelectSeq(@, LAMBDA j : j.id # job.id)]
           [] OTHER -> asked

RECURSIVE pollLoop(_, _)
pollLoop(acc, snapshot) ==
    IF snapshot = <<>> THEN acc
    ELSE pollLoop(pollJob(acc, Head(snapshot)), Tail(snapshot))

\* lines 452-478: the loop, entered with the job list js
poll(js) == pollLoop([jobs |-> js, threw |-> FALSE, queried |-> {}], js)

\* lines 482-484
pendingJobs(js) == SelectSeq(js, LAMBDA j : ~j.finished)

\* lines 446-480: checkBatchStatus.  When line 459 throws, the jobs handled
\* before it stay as they are in memory and cache.json is not written.
CheckBatchStatus ==
    LET acc == poll(jobs) IN
    /\ IF Len(pendingJobs(jobs)) = 0
       THEN UNCHANGED <<jobs, cache>>
       ELSE /\ jobs' = acc.jobs
            /\ cache' = IF acc.threw THEN cache ELSE JSONstringify(acc.jobs)
    /\ UNCHANGED <<toBatch, remote, nextId, translateVars, groupVars, pathVars, windowVars, peer, index>>

\* executionCache[path] of a path not seen by this process (line 15)
NoEntry == [present |-> FALSE, actionRequired |-> FALSE, matches |-> <<>>]

\* the process ends and a new one starts: lines 15, 23-27
Restart ==
    /\ jobs' = JSONparse(cache)
    /\ toBatch' = <<>>
    /\ executionCache' = NoEntry
    /\ UNCHANGED <<cache, remote, nextId, translateVars, groupVars>>
    /\ UNCHANGED <<batch, ffmpegResult, written, pathResult, windowVars, peer, index>>

BatchNext ==
    \/ TranslateBatch
    \/ BatchTranslations
    \/ BatchTranslationsThrow
    \/ RemoteCompletes
    \/ RemoteEndsWithoutOutput
    \/ CheckBatchStatus
    \/ Restart

(***************************************************************************)
(* translatePath(path) for one path.  The cues of its subtitle file are    *)
(* `segments`, MAX_TOKENS is `length`.  In batch mode no call of the       *)
(* handler waits for the network, so its steps run in the order of the     *)
(* microtask queue: every translate of a window runs up to its await, then *)
(* the invocations resume first in, first out.  In synchronous mode the    *)
(* groups of a window share nothing but the error corpus, and the model    *)
(* runs them one after another.                                            *)
(***************************************************************************)
WindowSize == 10

\* the attempt ceilings translatePath is run with
PathMaxTries == {1, 2}

\* the custom_ids translatePath may hand out before the model stops it
MaxEnqueued == 3

PathSegment(h, c) == [header |-> h, content |-> c, translatedContent |-> Absent]

\* the cue lists of the subtitle file: none, one group, two groups of the
\* same text, two groups of different texts, an oversized first cue
PathFiles ==
    { <<>>,
      <<PathSegment(1, <<"w">>)>>,
      <<PathSegment(1, <<"w">>), PathSegment(2, <<"w">>)>>,
      <<PathSegment(1, <<"w">>), PathSegment(2, <<"w", "w">>)>>,
      <<PathSegment(1, <<"w", "w">>)>> }

\* MAX_TOKENS: every cue in a group of its own, or all cues in one group
PathLengths == {1, 2 * DelimiterFunctions}

\* lines 356, 363: nothing to do for this path
NoAction == [present |-> TRUE, actionRequired |-> FALSE, matches |-> <<>>]

\* lines 380-383: the entry has no actionRequired property, which reads falsy
Entry(matches) ==
    [present |-> TRUE, actionRequired |-> FALSE, matches |-> matches]

NoFile == [exists |-> FALSE, cues |-> <<>>]

hasTranslationUnchecked(m) == TRUE

\* line 397: JavaScript truthiness of m.translatedContent
hasTranslation(m) == m.translatedContent # Absent /\ m.translatedContent # <<>>

\* lines 398-401
writeFile(matches) ==
    [exists |-> TRUE,
     cues |-> [i \in 1..Len(matches) |->
                  <<matches[i].header, matches[i].translatedContent>>]]

settle(st, k, how) == [st EXCEPT !.settled[k] = how]

\* lines 144-147 with batch = true: translate(groups[k], num) up to its await
invoke(k, num, st) ==
    LET got == getTranslationBatch(st.jobs, st.toBatch, st.nextId,
                                   renderGroup(st.groups[k]))
    IN  [st EXCEPT !.toBatch = got.toBatch,
                   !.nextId = got.nextId,
                   !.queue = Append(@, [k |-> k, number |-> num,
                                        translated |-> got.translated])]

\* lines 148-199 with batch = true: the invocation resumes with what
\* getTranslation returned.  jobs.find of line 180 yields undefined when an
\* earlier invocation has removed the text, and line 181 throws.
resume(item, st) ==
    LET g == st.groups[item.k]
        text == renderGroup(g)
        tr == item.translated
        split == parseTranslated(tr.text)
        branch == translateBranch(g, item.number, tr, st.MAX_TRIES)
        logged == [st EXCEPT !.mostErrored =
                                 logMostErrored(@, g, item.number, tr)]
    IN  CASE branch = "queued" -> settle(st, item.k, "false")
          [] branch = "success" ->
                 settle([logged EXCEPT !.groups[item.k] =
                                           assignTranslated(g, split)],
                        item.k, "true")
          [] branch \in {"exhausted", "retry"} ->
                 IF findJob(logged.jobs, text) = 0
                 THEN settle(logged, item.k, "rejected")
                 ELSE LET removed ==
                              [logged EXCEPT
                                  !.jobs = removeRequest(logged.jobs, text),
                                  !.cache = JSONstringify(
                                                removeRequest(logged.jobs, text))]
                      IN  IF branch = "exhausted"
                          THEN settle([removed EXCEPT !.reported =
                                          Append(@, <<Len(split), Len(g)>>)],
                                      item.k, "false")
                          ELSE invoke(item.k, item.number + 1, removed)

RECURSIVE drain(_)
drain(st) ==
    IF st.queue = <<>> THEN st
    ELSE drain(resume(Head(st.queue), [st EXCEPT !.queue = Tail(@)]))

\* what getTranslation may return with batch = false (lines 122-130)
SyncReturns ==
    {getTranslationSync("length", EmptyText)}
        \cup {getTranslationSync("stop", t) : t \in ResultTexts}

\* translate(groups[k], num) with batch = false, the recursion of line 192
\* included: the states it may leave, one for each course the responses of
\* openai.chat.completions.create can take (a rejected call among them)
RECURSIVE translateSync(_, _, _)
translateSync(k, num, st) ==
    LET g == st.groups[k]
        after(tr) ==
            LET split == parseTranslated(tr.text)
                branch == translateBranch(g, num, tr, st.MAX_TRIES)
                logged == [st EXCEPT !.mostErrored =
                                         logMostErrored(@, g, num, tr)]
            IN  CASE branch = "queued" -> {settle(st, k, "false")}
                  [] branch = "success" ->
                         {settle([logged EXCEPT !.groups[k] =
                                                    assignTranslated(g, split)],
                                 k, "true")}
                  [] branch = "exhausted" ->
                         {settle([logged EXCEPT !.reported =
                                     Append(@, <<Len(split), Len(g)>>)],
                                 k, "false")}
                  [] branch = "retry" -> translateSync(k, num + 1, logged)
    IN  {settle(st, k, "rejected")} \cup UNION {after(tr) : tr \in SyncReturns}

\* line 389: groups.slice(i, i + 10).map(group => translate(group, 0))
RECURSIVE translateAll(_, _)
translateAll(ks, sts) ==
    IF ks = <<>> THEN sts
    ELSE translateAll(Tail(ks),
             UNION {IF st.batch
                    THEN {invoke(Head(ks), 0, st)}
                    ELSE translateSync(Head(ks), 0, st) : st \in sts})

\* lines 387-394: window after window; a rejection ends the handler
RECURSIVE translateWindows(_, _)
translateWindows(i, st) ==
    IF i >= Len(st.groups) THEN {st}
    ELSE LET last == IF i + WindowSize < Len(st.groups)
                     THEN i + WindowSize ELSE Len(st.groups)
             ks == [j \in 1..(last - i) |-> i + j]
             rejects(done) ==
                 \E j \in 1..Len(ks) : done.settled[ks[j]] = "rejected"
         IN  UNION {IF rejects(done)
                    THEN {[done EXCEPT !.failed = TRUE]}
                    ELSE translateWindows(i + WindowSize, done) :
                       done \in {drain(w) : w \in translateAll(ks, {st})}}

\* lines 385-406, entered with the cues of the path
translateMatches(matches) ==
    LET gs == groupSegmentsByTokenLength(matches, length, delimiter) IN
    \E end \in translateWindows(0,
                   [batch |-> batch, MAX_TRIES |-> MAX_TRIES,
                    jobs |-> jobs, toBatch |-> toBatch, cache |-> cache,
                    nextId |-> nextId, mostErrored |-> mostErrored,
                    reported |-> <<>>, groups |-> gs,
                    settled |-> [k \in 1..Len(gs) |-> "pending"],
                    queue |-> <<>>, failed |-> FALSE]) :
        LET after == Flatten(end.groups) IN
        /\ end.nextId <= MaxEnqueued + 1
        /\ toBatch' = end.toBatch
        /\ jobs' = end.jobs
        /\ cache' = end.cache
        /\ nextId' = end.nextId
        /\ mostErrored' = end.mostErrored
        /\ reported' = end.reported
        /\ executionCache' = Entry(after)
        /\ IF end.failed
           THEN /\ pathResult' = "undefined"
                /\ UNCHANGED written
           ELSE IF \A i \in 1..Len(after) : hasTranslation(after[i])
                THEN /\ written' = writeFile(after)
                     /\ pathResult' = "false"
                ELSE /\ pathResult' = "true"
                     /\ UNCHANGED written

\* lines 330-407
TranslatePath ==
    /\ IF written.exists
       THEN /\ pathResult' = "undefined"
            /\ UNCHANGED <<executionCache, written, batchVars,
                           mostErrored, reported>>
       ELSE IF executionCache.present
       THEN IF ~executionCache.actionRequired
            THEN /\ pathResult' = "undefined"
                 /\ UNCHANGED <<executionCache, written, batchVars,
                                mostErrored, reported>>
            ELSE /\ remote' = remote
                 /\ translateMatches(executionCache.matches)
       ELSE IF ffmpegResult # "file"
       THEN /\ executionCache' = NoAction
            /\ pathResult' = "undefined"
            /\ UNCHANGED <<written, batchVars, mostErrored, reported>>
       ELSE /\ remote' = remote
            /\ translateMatches(segments)
    /\ UNCHANGED <<MAX_TRIES, group, groupIn, number, calls, result,
                   translated, allMismatched>>
    /\ UNCHANGED <<groupVars, batch, ffmpegResult, windowVars, peer, index>>

PathNext ==
    \/ TranslatePath
    \/ BatchTranslations
    \/ BatchTranslationsThrow
    \/ RemoteCompletes
    \/ RemoteEndsWithoutOutput
    \/ CheckBatchStatus
    \/ Restart

(***************************************************************************)
(* The windows of translatePath in synchronous mode, where every translate *)
(* call awaits the network.  The handler is cut at its await of line 389:  *)
(* Promise.all fulfils once every promise of the window has fulfilled and  *)
(* rejects as soon as one of them rejects, whatever the others are doing.  *)
(* The paths are handed to translatePath one after another.                *)
(***************************************************************************)
\* the translatePath calls made
MaxFiles == 2

\* the most groups a file has
MaxGroups == 11

\* lines 330-386: the next path is handed to translatePath
CallTranslatePath ==
    /\ ~running
    /\ started < MaxFiles
    /\ \E n \in 0..MaxGroups : groupCount' = n
    /\ running' = TRUE
    /\ started' = started + 1
    /\ windowStart' = 0
    /\ inWindow' = 0
    /\ UNCHANGED leftBehind
    /\ UNCHANGED <<groupVars, translateVars, batchVars, pathVars, peer, index>>

\* lines 387-389: the loop condition holds and the next window is issued
IssueWindow ==
    /\ running
    /\ inWindow = 0
    /\ windowStart < groupCount
    /\ inWindow' = IF groupCount - windowStart < WindowSize
                   THEN groupCount - windowStart ELSE WindowSize
    /\ windowStart' = windowStart + WindowSize
    /\ UNCHANGED <<running, started, groupCount, leftBehind>>
    /\ UNCHANGED <<groupVars, translateVars, batchVars, pathVars, peer, index>>

\* a translate call of the awaited window returns true or false
TranslateFulfils ==
    /\ running
    /\ inWindow > 0
    /\ inWindow' = inWindow - 1
    /\ UNCHANGED <<running, started, groupCount, windowStart, leftBehind>>
    /\ UNCHANGED <<groupVars, translateVars, batchVars, pathVars, peer, index>>

\* a translate call of the awaited window rejects: Promise.all rejects and
\* lines 390-393 return while the other calls of the window go on
TranslateRejects ==
    /\ running
    /\ inWindow > 0
    /\ running' = FALSE
    /\ inWindow' = 0
    /\ leftBehind' = leftBehind + (inWindow - 1)
    /\ UNCHANGED <<started, groupCount, windowStart>>
    /\ UNCHANGED <<groupVars, translateVars, batchVars, pathVars, peer, index>>

\* a translate call of a translatePath call that has returned settles
LeftBehindSettles ==
    /\ leftBehind > 0
    /\ leftBehind' = leftBehind - 1
    /\ UNCHANGED <<running, started, groupCount, windowStart, inWindow>>
    /\ UNCHANGED <<groupVars, translateVars, batchVars, pathVars, peer, index>>

\* lines 387, 397-406: the loop condition fails and translatePath returns
PathReturns ==
    /\ running
    /\ inWindow = 0
    /\ windowStart >= groupCount
    /\ running' = FALSE
    /\ UNCHANGED <<started, groupCount, windowStart, inWindow, leftBehind>>
    /\ UNCHANGED <<groupVars, translateVars, batchVars, pathVars, peer, index>>

WindowNext ==
    \/ CallTranslatePath
    \/ IssueWindow
    \/ TranslateFulfils
    \/ TranslateRejects
    \/ LeftBehindSettles
    \/ PathReturns

(***************************************************************************)
(* Two runs of the program in batch mode on one cache.json and one remote  *)
(* side.  The first run is the one of the batch variables; the second one  *)
(* keeps its own toBatch and jobs in `peer` and runs the same code.        *)
(***************************************************************************)
NoPeer == [started |-> FALSE, toBatch |-> <<>>, jobs |-> <<>>]

\* lines 23-27: the second process starts and loads cache.json
PeerStart ==
    /\ ~peer.started
    /\ peer' = [started |-> TRUE, toBatch |-> <<>>, jobs |-> JSONparse(cache)]
    /\ UNCHANGED <<groupVars, translateVars, batchVars, pathVars, windowVars, index>>

\* translate(group, 0) in the second run
PeerTranslate ==
    /\ peer.started
    /\ \E g \in BatchGroups :
           LET st == translateBatch(g, 0,
                         [jobs |-> peer.jobs, toBatch |-> peer.toBatch,
                          cache |-> cache, nextId |-> nextId,
                          mostErrored |-> mostErrored, reported |-> <<>>,
                          calls |-> 0, number |-> 0,
                          translated |-> ReturnedFalse, group |-> g,
                          result |-> "running", MAX_TRIES |-> MAX_TRIES])
           IN  /\ st.nextId <= MaxRequests + 1
               /\ peer' = [peer EXCEPT !.toBatch = st.toBatch,
                                       !.jobs = st.jobs]
               /\ cache' = st.cache
               /\ nextId' = st.nextId
               /\ mostErrored' = st.mostErrored
    /\ UNCHANGED <<MAX_TRIES, group, groupIn, number, calls, result,
                   translated, allMismatched, reported>>
    /\ UNCHANGED <<toBatch, jobs, remote, groupVars, pathVars, windowVars, index>>

\* batchTranslations in the second run
PeerBatchTranslations ==
    /\ peer.started
    /\ IF Len(peer.toBatch) > 0
       THEN LET id == Len(remote) + 1
                pushed == Append(peer.jobs, newJob(id, peer.toBatch))
            IN  /\ id <= MaxJobs
                /\ remote' = Append(remote, [status |-> "in_progress",
                                             input |-> peer.toBatch,
                                             output |-> <<>>])
                /\ peer' = [peer EXCEPT !.jobs = pushed, !.toBatch = <<>>]
                /\ cache' = JSONstringify(pushed)
       ELSE UNCHANGED <<remote, peer, cache>>
    /\ UNCHANGED <<toBatch, jobs, nextId>>
    /\ UNCHANGED <<groupVars, translateVars, pathVars, windowVars, index>>

\* checkBatchStatus in the second run
PeerCheckBatchStatus ==
    LET acc == poll(peer.jobs) IN
    /\ peer.started
    /\ IF Len(pendingJobs(peer.jobs)) = 0
       THEN UNCHANGED <<peer, cache>>
       ELSE /\ peer' = [peer EXCEPT !.jobs = acc.jobs]
            /\ cache' = IF acc.threw THEN cache ELSE JSONstringify(acc.jobs)
    /\ UNCHANGED <<toBatch, jobs, remote, nextId>>
    /\ UNCHANGED <<groupVars, translateVars, pathVars, windowVars, index>>

RunsNext ==
    \/ TranslateBatch
    \/ BatchTranslations
    \/ CheckBatchStatus
    \/ RemoteCompletes
    \/ RemoteEndsWithoutOutput
    \/ PeerStart
    \/ PeerTranslate
    \/ PeerBatchTranslations
    \/ PeerCheckBatchStatus

(***************************************************************************)
(* The synchronous script src/index.js.  Its strings are sequences of      *)
(* characters, of which the encoder makes one token each.  A cue's header  *)
(* is its position in the file.                                            *)
(***************************************************************************)
MaxCues == 2

MaxResponse == 5

IndexChars == {"a", " ", "|"}

\* the position of the first '|' of s from position i on, or 0
RECURSIVE firstPipe(_, _)
firstPipe(s, i) ==
    IF i > Len(s) THEN 0
    ELSE IF s[i] = "|" THEN i ELSE firstPipe(s, i + 1)

\* String.prototype.split('|'): the empty string has one empty fragment
RECURSIVE split(_)
split(s) ==
    LET i == firstPipe(s, 1) IN
    IF i = 0 THEN <<s>>
    ELSE <<SubSeq(s, 1, i - 1)>> \o split(SubSeq(s, i + 1, Len(s)))

\* Array.prototype.join('|')
RECURSIVE join(_)
join(ss) ==
    IF ss = <<>> THEN <<>>
    ELSE IF Len(ss) = 1 THEN ss[1]
    ELSE ss[1] \o <<"|">> \o join(Tail(ss))

\* lines 93-96: split the completion, trim the fragments, pop a last ''
responseSplit(content) ==
    LET parts == split(content)
        trimmed == [i \in 1..Len(parts) |-> trim(parts[i])]
    IN IF trimmed[Len(trimmed)] = <<>>
       THEN SubSeq(trimmed, 1, Len(trimmed) - 1)
       ELSE trimmed

\* what a call of translate comes to: it throws, it returns a list of
\* fragments, or it runs off its end and returns undefined
Throws == [kind |-> "throws", value |-> <<>>]

Returns(fragments) == [kind |-> "returns", value |-> fragments]

ReturnsUndefined == [kind |-> "undefined", value |-> <<>>]

NotCalled == [kind |-> "none", value |-> <<>>]

\* the answers of the completion endpoint
IndexResponses ==
    {[status |-> 500, finish_reason |-> "stop", content |-> <<>>],
     [status |-> 200, finish_reason |-> "length", content |-> <<>>]}
        \cup {[status |-> 200, finish_reason |-> "stop", content |-> c] :
                 c \in SeqsUpTo(IndexChars, MaxResponse)}

\* lines 83-122: translate(text) from the arrival of the response on
indexTranslate(text, response, debug) ==
    IF response.status # 200 THEN Throws
    ELSE IF response.finish_reason # "stop" THEN Throws
    ELSE LET originalSplit == split(text)
             fragments == responseSplit(response.content)
         IN IF debug
            THEN IF Len(fragments) # Len(originalSplit)
                 THEN Throws
                 ELSE Returns(fragments)
            ELSE ReturnsUndefined

\* the cues of the subtitle file: plain ones and ones holding a '|'
IndexContents == { <<"a">>, <<"a", "|", "a">> }

IndexFiles ==
    {[i \in 1..Len(cs) |-> PathSegment(i, cs[i])] :
        cs \in SeqsUpTo(IndexContents, MaxCues)}

\* MAX_TOKENS: room for one plain cue, or for a cue with '|' and a plain one
IndexLengths == {1, 2 * MaxCues + 1}

\* line 155: the groups, each cue named by its position in matches
indexGroups(matches, len) ==
    LET gs == groupSegmentsByTokenLength(matches, len, DelimiterIndex) IN
    [k \in 1..Len(gs) |-> [i \in 1..Len(gs[k]) |-> gs[k][i].header]]

\* line 156: group.map(m => m.content).join('|')
groupText(matches, g) == join([i \in 1..Len(g) |-> matches[g[i]].content])

\* lines 157-159: group[i].translatedContent = translatedMatch for each
\* entry; an entry beyond the group's end throws a TypeError
assignEntries(matches, g, fragments) ==
    LET n == IF Len(fragments) < Len(g) THEN Len(fragments) ELSE Len(g) IN
    [matches |->
        [m \in 1..Len(matches) |->
            IF \E i \in 1..n : g[i] = m
            THEN [matches[m] EXCEPT !.translatedContent =
                      fragments[CHOOSE i \in 1..n : g[i] = m]]
            ELSE matches[m]],
     assigned |-> n,
     threw |-> Len(fragments) > Len(g)]

\* the state of translatePath(path) before its call
IndexStart(debug, len, matches) ==
    [debug |-> debug, length |-> len, matches |-> matches, groups |-> <<>>,
     pos |-> 0, text |-> <<>>, lastText |-> <<>>,
     response |-> [status |-> 200, finish_reason |-> "stop", content |-> <<>>],
     outcome |-> NotCalled, assigned |-> 0, status |-> "idle",
     written |-> NoFile]

\* lines 124-156: translatePath up to the first await of translate
IndexTranslatePath ==
    /\ index.status = "idle"
    /\ index' =
         IF index.matches = <<>>
         THEN [index EXCEPT !.status = "returned"]
         ELSE LET gs == indexGroups(index.matches, index.length) IN
              [index EXCEPT !.groups = gs, !.pos = 1,
                            !.text = groupText(index.matches, gs[1]),
                            !.status = "awaiting"]
    /\ UNCHANGED <<groupVars, translateVars, batchVars, pathVars, windowVars, peer>>

\* lines 83-122 and 156-166: the response arrives, translate settles, and
\* translatePath goes on to its next await or to its end
IndexTranslate ==
    /\ index.status = "awaiting"
    /\ \E response \in IndexResponses :
         LET out == indexTranslate(index.text, response, index.debug)
             called == [index EXCEPT !.response = response, !.outcome = out,
                                     !.lastText = index.text, !.assigned = 0]
             g == index.groups[index.pos]
         IN index' =
              IF out.kind = "throws" THEN [called EXCEPT !.status = "rejected"]
              ELSE IF out.kind = "undefined"
              THEN [called EXCEPT !.status = "rejected"]
              ELSE LET a == assignEntries(index.matches, g, out.value)
                       after == [called EXCEPT !.matches = a.matches,
                                               !.assigned = a.assigned]
                   IN IF a.threw THEN [after EXCEPT !.status = "rejected"]
                      ELSE IF index.pos < Len(index.groups)
                      THEN [after EXCEPT
                               !.pos = @ + 1,
                               !.text = groupText(a.matches,
                                            index.groups[index.pos + 1]),
                               !.status = "awaiting"]
                      ELSE [after EXCEPT !.written = writeFile(a.matches),
                                         !.status = "returned"]
    /\ UNCHANGED <<groupVars, translateVars, batchVars, pathVars, windowVars, peer>>

IndexNext ==
    \/ IndexTranslatePath
    \/ IndexTranslate

(***************************************************************************)
(* Specifications.  Each one runs one part of the program and holds the    *)
(* variables of the other parts still.                                     *)
(***************************************************************************)
GroupIdle ==
    /\ segments = <<>>
    /\ length = 1
    /\ delimiter = DelimiterFunctions
    /\ groups = <<>>
    /\ grouped = TRUE

TranslateIdle ==
    /\ MAX_TRIES = 1
    /\ group = <<>>
    /\ groupIn = <<>>
    /\ number = 0
    /\ calls = 0
    /\ result = "idle"
    /\ translated = ReturnedFalse
    /\ allMismatched = TRUE
    /\ mostErrored = <<>>
    /\ reported = <<>>

BatchIdle ==
    /\ toBatch = <<>>
    /\ jobs = <<>>
    /\ cache = <<>>
    /\ remote = <<>>
    /\ nextId = 1

PathIdle ==
    /\ batch = FALSE
    /\ ffmpegResult = "file"
    /\ executionCache = NoEntry
    /\ written = NoFile
    /\ pathResult = "none"

WindowIdle ==
    /\ running = FALSE
    /\ started = 0
    /\ groupCount = 0
    /\ windowStart = 0
    /\ inWindow = 0
    /\ leftBehind = 0

PeerIdle == peer = NoPeer

IndexIdle == index = [IndexStart(FALSE, 1, <<>>) EXCEPT !.status = "returned"]

GroupInit ==
    /\ GroupInputs
    /\ TranslateIdle /\ BatchIdle /\ PathIdle /\ WindowIdle /\ PeerIdle /\ IndexIdle

SpecGroup == GroupInit /\ [][GroupNext]_vars

SyncInit ==
    /\ TranslateInputs
    /\ GroupIdle /\ BatchIdle /\ PathIdle /\ WindowIdle /\ PeerIdle /\ IndexIdle

SpecSync == SyncInit /\ [][SyncNext]_vars

BatchInit ==
    /\ MAX_TRIES \in {1, MaxMaxTries}
    /\ group = <<>>
    /\ groupIn = <<>>
    /\ number = 0
    /\ calls = 0
    /\ result = "idle"
    /\ translated = ReturnedFalse
    /\ allMismatched = TRUE
    /\ mostErrored = <<>>
    /\ reported = <<>>
    /\ toBatch = <<>>
    /\ jobs = <<>>
    /\ cache = <<>>
    /\ remote = <<>>
    /\ nextId = 1
    /\ GroupIdle
    /\ batch = TRUE
    /\ ffmpegResult = "file"
    /\ executionCache = NoEntry
    /\ written = NoFile
    /\ pathResult = "none"
    /\ WindowIdle
    /\ PeerIdle /\ IndexIdle

SpecBatch == BatchInit /\ [][BatchNext]_vars

PathInit ==
    /\ batch \in BOOLEAN
    /\ ffmpegResult \in {"file", "none", "translated"}
    /\ segments \in (IF ffmpegResult = "file" THEN PathFiles ELSE { <<>> })
    /\ length \in PathLengths
    /\ delimiter = DelimiterFunctions
    /\ groups = <<>>
    /\ grouped = FALSE
    /\ MAX_TRIES \in PathMaxTries
    /\ group = <<>>
    /\ groupIn = <<>>
    /\ number = 0
    /\ calls = 0
    /\ result = "idle"
    /\ translated = ReturnedFalse
    /\ allMismatched = TRUE
    /\ mostErrored = <<>>
    /\ reported = <<>>
    /\ BatchIdle
    /\ executionCache = NoEntry
    /\ written = NoFile
    /\ pathResult = "none"
    /\ WindowIdle
    /\ PeerIdle /\ IndexIdle

SpecPath == PathInit /\ [][PathNext]_vars

WindowInit ==
    /\ GroupIdle /\ TranslateIdle /\ BatchIdle /\ PathIdle
    /\ WindowIdle /\ PeerIdle /\ IndexIdle

SpecWindow == WindowInit /\ [][WindowNext]_vars

SpecRuns == BatchInit /\ [][RunsNext]_vars

IndexInit ==
    /\ index \in {IndexStart(debug, len, matches) :
                     debug \in BOOLEAN, len \in IndexLengths,
                     matches \in IndexFiles}
    /\ GroupIdle /\ TranslateIdle /\ BatchIdle /\ PathIdle
    /\ WindowIdle /\ PeerIdle

SpecIndex == IndexInit /\ [][IndexNext]_vars

(***************************************************************************)
(* Claims about the grouper.                                               *)
(***************************************************************************)
\* a group's estimated cost: its segments' token costs plus the delimiter
\* overhead for each join between adjacent segments
GroupCost(g, delim) ==
    SumSeq([i \in 1..Len(g) |-> numTokens(g[i].content)])
        + (IF Len(g) > 0 THEN (Len(g) - 1) * delim ELSE 0)

\* C1: concatenating the returned groups' segments in group order yields
\* exactly the input sequence (nothing dropped, duplicated, reordered, split).
C1_ConcatIsInput == grouped => Flatten(groups) = segments

C1_Witness ==
    /\ grouped
    /\ Len(segments) >= 3
    /\ Len(groups) >= 2
    /\ \E k \in 1..Len(groups) : Len(groups[k]) >= 2

\* C2: every returned group has exactly one segment or an estimated cost of
\* at most the budget, for overflow-opened groups as for the first group.
C2_CostWithinBudget ==
    grouped =>
        \A k \in 1..Len(groups) :
            Len(groups[k]) = 1 \/ GroupCost(groups[k], delimiter) <= length

\* C3: no returned group is empty, and a segment whose cost exceeds the
\* budget is alone in its group.
C3_NoEmptyGroup ==
    grouped =>
        /\ \A k \in 1..Len(groups) : Len(groups[k]) > 0
        /\ \A k \in 1..Len(groups) : \A i \in 1..Len(groups[k]) :
               numTokens(groups[k][i].content) > length => Len(groups[k]) = 1

(***************************************************************************)
(* Claims about translate in synchronous mode.                             *)
(***************************************************************************)
Settled == result \in {"true", "false", "rejected"}

\* C4: when the raw text parses into as many fragments as the group has
\* segments, translate reports success, the i-th segment's translatedContent
\* is the i-th fragment, and header, content and order are unchanged.
C4_MatchAssignsInOrder ==
    (/\ Settled
     /\ calls > 0
     /\ translated.ok
     /\ Len(parseTranslated(translated.text)) = Len(groupIn))
    => /\ result = "true"
       /\ Len(group) = Len(groupIn)
       /\ \A i \in 1..Len(group) :
              /\ group[i].translatedContent = parseTranslated(translated.text)[i]
              /\ group[i].header = groupIn[i].header
              /\ group[i].content = groupIn[i].content

\* C5: if every response obtained had the wrong fragment count, then when
\* translate(group, 0) has returned no segment has translatedContent set and
\* false was returned after the observed/expected counts were emitted.
C5_MismatchIsFatal ==
    (Settled /\ calls > 0 /\ allMismatched)
    => /\ result = "false"
       /\ \A i \in 1..Len(group) : group[i].translatedContent = Absent
       /\ reported =
              << <<Len(parseTranslated(translated.text)), Len(groupIn)>> >>

\* C6: translate(group, 0) makes at most MAX_TRIES getTranslation calls.
C6_CallsWithinMaxTries == calls <= MAX_TRIES

(***************************************************************************)
(* Claims about batch mode.                                                *)
(***************************************************************************)
JobIds(js) == {js[k].id : k \in 1..Len(js)}

Range(f) == {f[x] : x \in DOMAIN f}

\* the contents queued and not resolved: the pending list, then the requests
\* of the unfinished jobs
QueuedContents ==
    [i \in 1..Len(toBatch) |-> toBatch[i].content]
        \o Flatten([k \in 1..Len(jobs) |->
                       IF jobs[k].finished THEN <<>>
                       ELSE [i \in 1..Len(jobs[k].requests) |->
                                jobs[k].requests[i].content]])

\* C7: the pending list together with the unresolved jobs never holds two
\* distinct requests with the same verbatim content.
C7_NoDuplicateQueued ==
    \A a, b \in 1..Len(QueuedContents) :
        a # b => QueuedContents[a] # QueuedContents[b]

\* C8: batchTranslations with a non-empty pending list adds exactly one job,
\* unfinished, whose requests are the pending contents in enqueue order,
\* leaves cache.json holding the job list and empties the pending list; with
\* an empty pending list it changes neither the jobs nor cache.json and
\* creates nothing at the remote side.
C8_SubmitAddsOneJob ==
    [][BatchTranslations =>
          IF Len(toBatch) > 0
          THEN /\ Len(jobs') = Len(jobs) + 1
               /\ SubSeq(jobs', 1, Len(jobs)) = jobs
               /\ ~jobs'[Len(jobs')].finished
               /\ [i \in 1..Len(jobs'[Len(jobs')].requests) |->
                      jobs'[Len(jobs')].requests[i].content]
                  = [i \in 1..Len(toBatch) |-> toBatch[i].content]
               /\ \A i \in 1..Len(jobs'[Len(jobs')].requests) :
                      ~jobs'[Len(jobs')].requests[i].result.ok
               /\ JSONparse(cache') = jobs'
               /\ toBatch' = <<>>
          ELSE /\ UNCHANGED <<jobs, cache, remote>>
               /\ toBatch' = <<>>]_vars

C8_Witness ==
    /\ Len(jobs) >= 1
    /\ toBatch = <<>>
    /\ JSONparse(cache) = jobs
    /\ LET job == jobs[Len(jobs)] IN
           /\ ~job.finished
           /\ remote[job.id].status = "in_progress"
           /\ Len(job.requests) >= 2
           /\ job.requests[1].content # job.requests[2].content

\* C9: every request of a finished job carries a result, and it is the text
\* the remote side produced for that request's own content.
C9_FinishedHasOwnResults ==
    \A k \in 1..Len(jobs) :
        jobs[k].finished =>
            \A i \in 1..Len(jobs[k].requests) :
                LET r == jobs[k].requests[i]
                    retrieved == remote[jobs[k].id]
                IN  /\ r.result.ok
                    /\ \E m \in 1..Len(retrieved.input), n \in 1..Len(retrieved.output) :
                           /\ retrieved.input[m].content = r.content
                           /\ retrieved.output[n].custom_id = retrieved.input[m].custom_id
                           /\ retrieved.output[n].text = r.result.text

\* checkBatchStatus would reject at line 459 from this state
PollThrows == poll(jobs).threw

\* C10: when checkBatchStatus returns, an unfinished job whose remote status
\* is failed, or completed without an output file, is in neither the job list
\* nor cache.json; an unfinished job whose remote status is neither completed
\* nor failed is unchanged; a finished job is unchanged.
C10_PollDropsOrKeeps ==
    [][(CheckBatchStatus /\ ~PollThrows) =>
          \A k \in 1..Len(jobs) :
              LET job == jobs[k]
                  status == remote[job.id].status
              IN  IF job.finished
                  THEN job \in Range(jobs')
                  ELSE CASE status \in {"failed", "completed_errors"} ->
                                /\ job.id \notin JobIds(jobs')
                                /\ job.id \notin JobIds(cache')
                         [] status = "completed" ->
                                job.id \in JobIds(jobs')
                         [] OTHER ->
                                /\ job \in Range(jobs')
                                /\ job.id \in JobIds(cache')]_vars

C10_Witness ==
    /\ \E id \in 1..Len(remote) :
           /\ remote[id].status \in {"failed", "completed_errors"}
           /\ id \notin JobIds(jobs)
           /\ id \notin JobIds(cache)
    /\ \E k \in 1..Len(jobs) :
           /\ ~jobs[k].finished
           /\ remote[jobs[k].id].status \in {"in_progress", "expired"}
    /\ JSONparse(cache) = jobs

(***************************************************************************)
(* Claims about the durable job store.                                     *)
(***************************************************************************)
\* a translate call whose count check failed and removed a request
\* (lines 178-184)
MismatchRemoval == TranslateBatch /\ jobs' # jobs

\* C11: after every batchTranslations, checkBatchStatus and mismatch removal,
\* cache.json holds the in-memory job list, so that a process started at
\* that point loads the jobs the previous process held.
C11_StoreEqualsJobs ==
    [][(BatchTranslations \/ CheckBatchStatus \/ MismatchRemoval) =>
          JSONparse(cache') = jobs']_vars

(***************************************************************************)
(* Claims about translatePath.                                             *)
(***************************************************************************)
\* C12: a translatePath call that writes the output file writes one cue for
\* each segment of the file, in the original order, made of the segment's
\* header and its translatedContent, and every segment has translatedContent
\* set; when a segment lacks translatedContent the call writes nothing.
C12_WritesOnlyWhenComplete ==
    [][TranslatePath =>
          LET matches == executionCache'.matches IN
          /\ written' # written =>
                 /\ written'.exists
                 /\ Len(matches) = Len(segments)
                 /\ Len(written'.cues) = Len(segments)
                 /\ \A i \in 1..Len(segments) :
                        /\ matches[i].translatedContent # Absent
                        /\ written'.cues[i] = <<segments[i].header,
                                                matches[i].translatedContent>>
          /\ (\E i \in 1..Len(matches) : matches[i].translatedContent = Absent)
                 => written' = written]_vars

C12_Witness ==
    /\ written.exists
    /\ Len(segments) >= 2
    /\ Len(written.cues) = Len(segments)
    /\ pathResult = "false"

\* C17: a file whose subtitles yield no parsable segment is skipped as
\* failed: no request is made for it and no output file is written.
C17_NoSegmentsIsSkipped ==
    (ffmpegResult = "file" /\ Len(segments) = 0) =>
        /\ ~written.exists
        /\ nextId = 1
        /\ pathResult \in {"none", "undefined"}

\* line 385: the groups of the path
PathGroups == groupSegmentsByTokenLength(segments, length, delimiter)

\* how many times the text has been put on the pending list: once for each
\* batch that holds it, and once if it is pending now
Enqueued(text) ==
    Cardinality({id \in 1..Len(remote) :
                    \E m \in 1..Len(remote[id].input) :
                        remote[id].input[m].content = text})
        + (IF \E m \in 1..Len(toBatch) : toBatch[m].content = text
           THEN 1 ELSE 0)

\* every batch so far is in progress or completed, and every text a
\* completed batch returned has the wrong fragment count for the group
OnlyMismatches(g) ==
    \A id \in 1..Len(remote) :
        /\ remote[id].status \in {"in_progress", "completed"}
        /\ \A n \in 1..Len(remote[id].output) :
               Len(parseTranslated(remote[id].output[n].text)) # Len(g)

\* C19: in batch mode a group whose resolved text has the wrong fragment
\* count on every cycle is enqueued once and re-enqueued at most MAX_TRIES
\* times.
C19_BatchRetriesBounded ==
    batch =>
        \A k \in 1..Len(PathGroups) :
            OnlyMismatches(PathGroups[k]) =>
                Enqueued(renderGroup(PathGroups[k])) <= MAX_TRIES + 1

\* every group of the path finds a result with the right fragment count in a
\* finished job
Resolved ==
    /\ batch
    /\ ffmpegResult = "file"
    /\ ~written.exists
    /\ \A k \in 1..Len(PathGroups) :
           LET text == renderGroup(PathGroups[k])
               j == findJob(jobs, text)
           IN  /\ j # 0
               /\ jobs[j].finished
               /\ truthy(findRequest(jobs[j], text).result)
               /\ Len(parseTranslated(findRequest(jobs[j], text).result.text))
                      = Len(PathGroups[k])

\* C20: in batch mode, once every group of a file has a stored result with
\* the right fragment count, the next translatePath call for the file, in
\* the same run as after a restart, sets every segment's translatedContent
\* and writes the output file.
C20_ResolvedFileIsWritten ==
    [][(TranslatePath /\ Resolved) =>
          /\ written'.exists
          /\ Len(written'.cues) = Len(segments)
          /\ Len(executionCache'.matches) = Len(segments)
          /\ \A i \in 1..Len(segments) :
                 hasTranslation(executionCache'.matches[i])]_vars

\* the translate calls that have been made and have not settled
InFlight == inWindow + leftBehind

\* C13: at most 10 translate calls are in flight at any time, and
\* translatePath neither issues the next window nor returns while a
\* translate call it made has not settled, by success, failure or rejection.
C13_WindowSettlesFirst ==
    /\ InFlight <= WindowSize
    /\ ~running => InFlight = 0

(***************************************************************************)
(* Claims about two runs sharing cache.json.                               *)
(***************************************************************************)
\* C14: with two runs interleaving their submit and poll cycles on one
\* cache.json no update is lost: a job that a submit has persisted and that
\* the remote side still has in progress is in cache.json, whichever run
\* wrote the file last.
C14_NoLostUpdate ==
    \A id \in 1..Len(remote) :
        remote[id].status = "in_progress" => id \in JobIds(cache)

(***************************************************************************)
(* Claims about the lifecycle of a job.                                    *)
(***************************************************************************)
jobOf(js, id) == js[CHOOSE k \in 1..Len(js) : js[k].id = id]

\* the job was dropped by the mismatch removal of this translate step: it
\* was finished, every request it still had was of the group's text, and
\* the result found for that text had the wrong fragment count
RemovedLastRequest(job) ==
    /\ TranslateBatch
    /\ job.finished
    /\ \A i \in 1..Len(job.requests) :
           job.requests[i].content = renderGroup(groupIn')
    /\ job.requests[1].result.ok
    /\ Len(parseTranslated(job.requests[1].result.text)) # Len(groupIn')

\* C15: over the steps of batchTranslations, checkBatchStatus and translate
\* a finished job stays finished, checkBatchStatus neither queries nor
\* changes a finished job, a job that is not in the list and that the remote
\* side already has does not come back, and a job leaves the list and
\* cache.json only for a remote status of failed or completed without
\* output, or with the removal of its last request after a count mismatch.
C15_LifecycleMovesForward ==
    [][(BatchTranslations \/ CheckBatchStatus \/ TranslateBatch) =>
          /\ \A k \in 1..Len(jobs) :
                 LET job == jobs[k] IN
                 /\ (job.finished /\ job.id \in JobIds(jobs'))
                        => jobOf(jobs', job.id).finished
                 /\ (job.finished /\ CheckBatchStatus)
                        => /\ job \in Range(jobs')
                           /\ job.id \notin poll(jobs).queried
                 /\ job.id \notin JobIds(jobs')
                        => \/ /\ CheckBatchStatus
                              /\ ~job.finished
                              /\ remote[job.id].status
                                     \in {"failed", "completed_errors"}
                           \/ RemovedLastRequest(job)
          /\ \A id \in JobIds(jobs') \ JobIds(jobs) : id = Len(remote')
                                                     /\ id > Len(remote)
          /\ \A k \in 1..Len(cache) :
                 LET id == cache[k].id IN
                 /\ ("finished" \in DOMAIN cache[k] /\ id \in JobIds(cache'))
                        => jobOf(JSONparse(cache'), id).finished
                 /\ id \notin JobIds(cache')
                        => \/ remote[id].status
                                  \in {"failed", "completed_errors"}
                           \/ /\ id \in JobIds(jobs)
                              /\ RemovedLastRequest(jobOf(jobs, id))
          /\ \A id \in JobIds(cache') \ JobIds(cache) : id > Len(remote)]_vars

C15_Witness ==
    /\ \E id \in 1..Len(remote) :
           /\ remote[id].status = "completed"
           /\ id \notin JobIds(jobs)
           /\ id \notin JobIds(cache)
    /\ \E id \in 1..Len(remote) :
           /\ remote[id].status = "failed"
           /\ id \notin JobIds(jobs)

(***************************************************************************)
(* Claims about the failure paths of synchronous mode.                     *)
(***************************************************************************)
\* C16: in synchronous mode a completion that finished for another reason
\* than 'stop' is a failed attempt: below the attempt ceiling translate goes
\* on with attempt number + 1 instead of returning after that call.
C16_NotStopRetries ==
    [][(TranslateNotStop /\ number < MAX_TRIES) =>
          /\ result' = "running"
          /\ number' = number + 1]_vars

\* C18: in synchronous mode, for every MAX_TRIES >= 1, when translate gives
\* up on a group the corpus holds the input and output of one of the group's
\* mismatching exchanges, and no step removes or alters a record of the
\* corpus.
C18_ExhaustedIsLogged ==
    [][TranslateStop =>
          /\ SubSeq(mostErrored', 1, Len(mostErrored)) = mostErrored
          /\ reported' # reported =>
                 \E i \in 1..Len(mostErrored') :
                     /\ mostErrored'[i].input = renderGroup(groupIn)
                     /\ Len(parseTranslated(mostErrored'[i].output))
                            # Len(groupIn)]_vars

(***************************************************************************)
(* Claims about requests that stay queued.                                 *)
(***************************************************************************)
\* the request of this content in the job of this id is the one
\* getTranslation finds, getTranslation answers false for it, and neither
\* checkBatchStatus nor a restart will change that: the job is finished with
\* a result that is absent or '', or the remote side has ended the batch
\* with a status checkBatchStatus takes for "in progress"
StuckFor(id, content) ==
    /\ id \in JobIds(jobs)
    /\ LET job == jobOf(jobs, id) IN
       /\ findJob(jobs, content) # 0
       /\ jobs[findJob(jobs, content)] = job
       /\ job \in Range(JSONparse(cache))
       /\ \/ job.finished /\ ~truthy(findRequest(job, content).result)
          \/ ~job.finished /\ remote[id].status = "expired"

\* C21: in batch mode no request stays queued forever: no state is reached
\* in which a submitted request whose batch has ended is answered with
\* "queued" by getTranslation on every later cycle of poll and translate.
C21_NoRequestStuck ==
    \A id \in 1..Len(remote) : \A m \in 1..Len(remote[id].input) :
        ~StuckFor(id, remote[id].input[m].content)

(***************************************************************************)
(* Claims about the synchronous script src/index.js.                       *)
(***************************************************************************)
\* the fragment count of the last response differs from that of its text
IndexMismatch ==
    Len(responseSplit(index.response.content)) # Len(split(index.lastText))

\* the last call of translate got a completion that finished with 'stop'
IndexAnswered ==
    /\ index.outcome.kind # "none"
    /\ index.response.status = 200
    /\ index.response.finish_reason = "stop"

\* C22: in src/index.js translate(text) never completes normally on a
\* fragment count that differs from the input's, with or without --debug;
\* on a matching count it returns the fragment list; and translatePath
\* neither assigns from nor writes a file after a mismatching or absent
\* result.
C22_MismatchIsRaised ==
    IndexAnswered =>
        /\ IndexMismatch => index.outcome.kind = "throws"
        /\ ~IndexMismatch =>
               index.outcome = Returns(responseSplit(index.response.content))
        /\ (IndexMismatch \/ index.outcome.kind = "undefined") =>
               index.assigned = 0 /\ ~index.written.exists

====
